---- MODULE Spec2Model ----
(***************************************************************************)
(* Client-side session and data-synchronisation state machine of the       *)
(* JobHunter.Ai frontend: the App component (session store, application    *)
(* collection cache, OAuth resumption handler, page router), the remote    *)
(* client's response handling, and the child components whose effects act  *)
(* on that state (OAuthCallback, Register, Applications, Dashboard).       *)
(*                                                                         *)
(* One page load is one run of the React tree.  A step of the model is one *)
(* reaction of the single-threaded event loop: an effect, a user event or  *)
(* the delivery of a network response, together with the render it causes. *)
(***************************************************************************)
EXTENDS Integers, Sequences, FiniteSets, TLC

(***************************************************************************)
(* Bounds of the model.                                                    *)
(***************************************************************************)
\* remote calls issued during one page load
MaxReq == 3
\* characters typed into the search box
MaxTerm == 2
\* records the cache may hold
MaxCache == 3
\* last value of the clock (Date.now())
MaxNow == 4
\* number of the last remote call of a page load that may be a sync request
MaxSync == 5

(***************************************************************************)
(* JavaScript values that reach the session state.  A value is a record    *)
(* with a tag; id 0 and name "" stand for an undefined field.              *)
(***************************************************************************)
JsNull == [t |-> "null", id |-> 0, name |-> "", email |-> ""]
JsUndefined == [t |-> "undefined", id |-> 0, name |-> "", email |-> ""]
JsNumber == [t |-> "number", id |-> 0, name |-> "", email |-> ""]
JsObject(id, name, email) == [t |-> "object", id |-> id, name |-> name, email |-> email]

\* the accounts the remote service knows
Accounts == {JsObject(1, "ann", "ann@x"), JsObject(2, "bob", "bob@x")}

\* what the user types into the register and login forms
FormData == {[name |-> "bob", email |-> "bob@x"]}

(***************************************************************************)
(* localStorage items.  An item is absent, or holds a text; a text is the  *)
(* JSON encoding of a value or is not JSON at all.                         *)
(***************************************************************************)
NoItem == [k |-> "absent", v |-> JsNull]
BadText == [k |-> "text", v |-> JsUndefined]
JsonText(v) == [k |-> "text", v |-> v]

\* an absent token (getItem gives null, get gives null): falsy like the empty text
NoToken == ""


\* JSON.stringify: undefined has no JSON text ("undefined" is stored instead,
\* which does not parse); every other value is encoded.
JSON_stringify(v) == IF v.t = "undefined" THEN BadText ELSE JsonText(v)

\* JSON.parse: ok is FALSE when the text makes JSON.parse throw.
JSON_parse(item) ==
  IF item.k = "text" /\ item.v.t # "undefined"
    THEN [ok |-> TRUE, v |-> item.v]
    ELSE [ok |-> FALSE, v |-> JsUndefined]

\* a localStorage item is truthy when it is present (and not the empty text)
ItemTruthy(item) == item.k = "text"

\* texts the user key may hold when the page is opened
StoredUsers ==
  {NoItem, BadText, JsonText(JsNull), JsonText(JsNumber), JsonText(JsObject(2, "bob", "bob@x"))}

(***************************************************************************)
(* The URL: the path and the four reserved query parameters.  token "" and *)
(* user_id 0 stand for an absent parameter; success is TRUE for            *)
(* success=email_connected; error is TRUE when error=<msg> is present.     *)
(***************************************************************************)
NoQuery == [token |-> NoToken, user_id |-> 0, success |-> FALSE, error |-> FALSE]
Url(path, q) == [pathname |-> path, query |-> q]

\* the URLs a page load may start from
InitUrls ==
  { Url("/", NoQuery),
    Url("/profile", [NoQuery EXCEPT !.success = TRUE]),
    Url("/", [NoQuery EXCEPT !.error = TRUE]),
    Url("/", [NoQuery EXCEPT !.token = "T"]),
    Url("/", [NoQuery EXCEPT !.token = "T", !.user_id = 1]) }

(***************************************************************************)
(* Application records and the lists the remote service may answer with.   *)
(***************************************************************************)
\* texts are sequences of characters; the characters typed into the search box
Chars == {"a", "A", "b"}
Acme == <<"A", "b">>
Engineer == <<"b", "a">>

\* status values (of Applied, Interview, Offer, Rejected)
Statuses == {"Applied", "Interview"}

\* seq is not a field of the program's records: it numbers the records that were
\* added to the cache in the order of their addition (0: not added, but loaded)
AppRecord(id, created) ==
  [id |-> id, company |-> Acme, role |-> Engineer, status |-> "Applied",
   created_at |-> created, updated_at |-> created, seq |-> 0]

ServerLists ==
  { <<>>,
    <<AppRecord(1, 1)>>,
    <<AppRecord(1, 1), AppRecord(2, 2)>>,
    <<AppRecord(2, 2), AppRecord(1, 1)>> }

\* Array.prototype.sort with (a, b) => new Date(b.created_at) - new Date(a.created_at):
\* stable, descending by created_at, in place.
RECURSIVE InsertDesc(_, _)
InsertDesc(r, s) ==
  IF s = <<>> THEN <<r>>
  ELSE IF Head(s).created_at >= r.created_at
         THEN <<Head(s)>> \o InsertDesc(r, Tail(s))
         ELSE <<r>> \o s

RECURSIVE SortByCreatedDesc(_)
SortByCreatedDesc(s) ==
  IF s = <<>> THEN <<>>
  ELSE InsertDesc(s[Len(s)], SortByCreatedDesc(SubSeq(s, 1, Len(s) - 1)))

\* the clock starts after every timestamp of the records the remote service held
\* when the page was opened
FirstNow ==
  LET times == {l[i].created_at : <<l, i>> \in {<<m, j>> \in ServerLists \X (1..MaxCache) : j <= Len(m)}}
  IN 1 + CHOOSE t \in times : \A u \in times : u <= t

(***************************************************************************)
(* State.                                                                  *)
(***************************************************************************)
VARIABLES
  pc,               \* "restore", "urlEffect": effects of the first commit still to run; "run"
  pathname, query,  \* window.location
  lsToken, lsUser,  \* localStorage items 'auth_token' and 'user'
  currentPage, isAuthenticated, user, applications, isLoading,  \* App's useState cells
  authDep,          \* the isAuthenticated value the URL effect last ran for (its dependency)
  cbPending,        \* OAuthCallback's effect is scheduled
  cbError,          \* OAuthCallback's error state
  requests,         \* remote calls in flight
  nextReq,          \* number of the next remote call of this page load
  now,              \* the clock: the time Date.now() last returned
  loadLog,          \* numbers of the App.loadApplications calls that resolved, in order
  filter, searchTerm,  \* Applications' useState cells for the visible list
  viewIsLoading,    \* Applications' useState cell isLoading: the list is hidden
  accounts, syncingAccounts,  \* EmailAccountsList's useState cells
  syncTimers,       \* accounts whose reload timer (setTimeout) is pending
  event             \* the last user event, response or navigation, with its argument

vars == <<pc, pathname, query, lsToken, lsUser, currentPage, isAuthenticated, user,
          applications, isLoading, authDep, cbPending, cbError, requests, nextReq,
          now, loadLog, filter, searchTerm, viewIsLoading, accounts, syncingAccounts,
          syncTimers, event>>

\* the current state as one record, so that handlers are functions of the state
Cur ==
  [pc |-> pc, pathname |-> pathname, query |-> query, lsToken |-> lsToken,
   lsUser |-> lsUser, currentPage |-> currentPage, isAuthenticated |-> isAuthenticated,
   user |-> user, applications |-> applications, isLoading |-> isLoading,
   authDep |-> authDep, cbPending |-> cbPending, cbError |-> cbError,
   requests |-> requests, nextReq |-> nextReq, now |-> now, loadLog |-> loadLog,
   filter |-> filter, searchTerm |-> searchTerm, viewIsLoading |-> viewIsLoading,
   accounts |-> accounts, syncingAccounts |-> syncingAccounts,
   syncTimers |-> syncTimers, event |-> event]

\* the next state is the record s
Becomes(s) ==
  /\ pc' = s.pc /\ pathname' = s.pathname /\ query' = s.query
  /\ lsToken' = s.lsToken /\ lsUser' = s.lsUser
  /\ currentPage' = s.currentPage /\ isAuthenticated' = s.isAuthenticated
  /\ user' = s.user /\ applications' = s.applications /\ isLoading' = s.isLoading
  /\ authDep' = s.authDep /\ cbPending' = s.cbPending /\ cbError' = s.cbError
  /\ requests' = s.requests /\ nextReq' = s.nextReq /\ now' = s.now
  /\ loadLog' = s.loadLog
  /\ filter' = s.filter /\ searchTerm' = s.searchTerm
  /\ viewIsLoading' = s.viewIsLoading /\ accounts' = s.accounts
  /\ syncingAccounts' = s.syncingAccounts /\ syncTimers' = s.syncTimers
  /\ event' = s.event

\* the first state is the record s
Becomes_Init(s) ==
  /\ pc = s.pc /\ pathname = s.pathname /\ query = s.query
  /\ lsToken = s.lsToken /\ lsUser = s.lsUser
  /\ currentPage = s.currentPage /\ isAuthenticated = s.isAuthenticated
  /\ user = s.user /\ applications = s.applications /\ isLoading = s.isLoading
  /\ authDep = s.authDep /\ cbPending = s.cbPending /\ cbError = s.cbError
  /\ requests = s.requests /\ nextReq = s.nextReq /\ now = s.now
  /\ loadLog = s.loadLog
  /\ filter = s.filter /\ searchTerm = s.searchTerm
  /\ viewIsLoading = s.viewIsLoading /\ accounts = s.accounts
  /\ syncingAccounts = s.syncingAccounts /\ syncTimers = s.syncTimers
  /\ event = s.event

\* a remote call in flight: its number, what was called, the arguments, and
\* whether the Applications view that awaits it is still mounted (live is TRUE
\* for the calls other components await)
Request(n, kind, uid, form) ==
  [n |-> n, kind |-> kind, uid |-> uid, form |-> form, live |-> TRUE]
NoForm == [name |-> "", email |-> ""]

\* what happened last: the name of the event, and the identity or the list it carried
Event(name, identity, list) == [name |-> name, identity |-> identity, list |-> list]
Happened(s, name) == [s EXCEPT !.event = Event(name, JsUndefined, <<>>)]

\* the state a page load starts in: App's initial useState values (part_000 13-18);
\* cause says what brought the browser to the page
PageLoad(url, token, savedUser, clock, cause) ==
  [pc |-> "restore", pathname |-> url.pathname, query |-> url.query,
   lsToken |-> token, lsUser |-> savedUser,
   currentPage |-> "dashboard", isAuthenticated |-> FALSE, user |-> JsNull,
   applications |-> <<>>, isLoading |-> FALSE,
   authDep |-> FALSE, cbPending |-> FALSE, cbError |-> "",
   requests |-> {}, nextReq |-> 1, now |-> clock, loadLog |-> <<>>,
   filter |-> "all", searchTerm |-> <<>>, viewIsLoading |-> FALSE,
   accounts |-> <<>>, syncingAccounts |-> {}, syncTimers |-> {},
   event |-> Event(cause, JsUndefined, <<>>)]

(***************************************************************************)
(* Page router: which view App renders.                                    *)
(***************************************************************************)
\* renderPage alone, were the session not tested before it
ViewOf_WithoutAuthTest(s) ==
  CASE s.currentPage = "dashboard" -> "dashboard"
    [] s.currentPage = "applications" -> "applications"
    [] s.currentPage = "profile" -> "profile"
    [] s.currentPage = "oauth-callback" -> "oauth-callback"
    [] OTHER -> "dashboard"

ViewOf(s) ==
  IF ~s.isAuthenticated /\ s.currentPage # "oauth-callback"
    THEN (IF s.currentPage = "login" THEN "login" ELSE "register")
    ELSE CASE s.currentPage = "dashboard" -> "dashboard"
           [] s.currentPage = "applications" -> "applications"
           [] s.currentPage = "profile" -> "profile"
           [] s.currentPage = "oauth-callback" -> "oauth-callback"
           [] OTHER -> "dashboard"

View == ViewOf(Cur)

\* Layout (sidebar and user menu) is rendered around every view but login and register
LayoutShown(s) == ViewOf(s) \notin {"login", "register"}

(***************************************************************************)
(* Rendering.  A handler's state updates are committed in one render (the  *)
(* updates of one handler are batched); the render mounts and unmounts     *)
(* child views and schedules their effects, which run before the next      *)
(* event is taken.                                                         *)
(***************************************************************************)
\* App renders again when one of its useState cells gets a new value; a cell set to a
\* fresh object or array (fresh) always counts as new
Rerenders(old, new, fresh) ==
  \/ fresh
  \/ old.currentPage # new.currentPage
  \/ old.isAuthenticated # new.isAuthenticated
  \/ old.isLoading # new.isLoading

\* the calls the Applications view awaits
ViewCalls == {"pageLoad", "add", "update", "delete"}

\* applicationsAPI.getAll(user.id) issued by the Applications view
ApplicationsLoadApplications(s) ==
  IF s.user.id = 0 THEN s
  ELSE [s EXCEPT !.requests = @ \cup {Request(s.nextReq, "pageLoad", s.user.id, NoForm)},
                 !.nextReq = @ + 1,
                 !.viewIsLoading = TRUE]

\* the render after a handler: old is the state before the handler, new the state its
\* updates give.  Dashboard sorts the array it is given, in place; OAuthCallback's
\* effect depends on onLogin, which is a new function in every render of App;
\* Applications loads when it mounts, its filter, search term and isLoading being
\* new cells; the calls an unmounted Applications awaits set cells of no view.
Commit(old, new, fresh) ==
  LET v == ViewOf(new)
      was == IF old.pc = "run" THEN ViewOf(old) ELSE "register"
      s1 == [new EXCEPT
               !.applications = IF v = "dashboard" THEN SortByCreatedDesc(@) ELSE @,
               !.cbPending = IF v # "oauth-callback" THEN FALSE
                             ELSE IF was # v \/ Rerenders(old, new, fresh) THEN TRUE
                             ELSE @,
               !.cbError = IF v = "oauth-callback" /\ was = v THEN @ ELSE "",
               !.filter = IF v = "applications" /\ was = v THEN @ ELSE "all",
               !.searchTerm = IF v = "applications" /\ was = v THEN @ ELSE <<>>,
               !.viewIsLoading = IF v = "applications" /\ was = v THEN @ ELSE FALSE,
               !.requests = IF was = v THEN @
                            ELSE {IF r.kind \in ViewCalls THEN [r EXCEPT !.live = FALSE]
                                                         ELSE r : r \in @}]
  IN IF v = "applications" /\ was # v THEN ApplicationsLoadApplications(s1) ELSE s1

(***************************************************************************)
(* App: session store and application collection cache.                    *)
(***************************************************************************)
\* App.loadApplications up to its await: the request is issued
loadApplications(s, userId) ==
  [s EXCEPT !.isLoading = TRUE,
            !.requests = @ \cup {Request(s.nextReq, "load", userId, NoForm)},
            !.nextReq = @ + 1]

\* the profile redirect both effects test for
IsEmailLinkUrl(s) == s.pathname = "/profile" \/ s.query.success \/ s.query.error

\* Restore, were the token not tested
Restore_WithoutTokenTest(s) ==
  IF ItemTruthy(s.lsUser) /\ JSON_parse(s.lsUser).ok /\ JSON_parse(s.lsUser).v.t = "object"
    THEN [s EXCEPT !.user = JSON_parse(s.lsUser).v, !.isAuthenticated = TRUE]
    ELSE s

\* the restore effect, run once when App mounts
Restore(s) ==
  IF s.lsToken # NoToken /\ ItemTruthy(s.lsUser)
    THEN LET parsed == JSON_parse(s.lsUser)
             userData == parsed.v
             s1 == [s EXCEPT !.user = userData, !.isAuthenticated = TRUE,
                             !.currentPage = IF IsEmailLinkUrl(s) THEN "profile" ELSE @]
         IN IF ~parsed.ok
              THEN \* JSON.parse threw: nothing was set yet
                   [s EXCEPT !.lsToken = NoToken, !.lsUser = NoItem]
              ELSE IF userData.t = "null"
                THEN \* reading userData.id threw, after the setters were called
                     [s1 EXCEPT !.lsToken = NoToken, !.lsUser = NoItem]
                ELSE IF userData.id # 0 THEN loadApplications(s1, userData.id) ELSE s1
    ELSE s

\* the callback effect, were isAuthenticated not tested
UrlEffect_WithoutAuthTest(s, auth) ==
  LET s1 == [s EXCEPT !.authDep = auth]
  IN IF s.query.token # NoToken /\ s.query.user_id # 0
       THEN [s1 EXCEPT !.currentPage = "oauth-callback"]
       ELSE IF IsEmailLinkUrl(s)
         THEN [s1 EXCEPT !.currentPage = "profile", !.pathname = "/profile",
                         !.query = NoQuery]
         ELSE s1

\* the OAuth / e-mail callback effect; auth is the isAuthenticated of the render
\* the effect belongs to
UrlEffect(s, auth) ==
  LET s1 == [s EXCEPT !.authDep = auth]
  IN IF s.query.token # NoToken /\ s.query.user_id # 0
       THEN [s1 EXCEPT !.currentPage = "oauth-callback"]
       ELSE IF IsEmailLinkUrl(s) /\ auth
         THEN [s1 EXCEPT !.currentPage = "profile", !.pathname = "/profile",
                         !.query = NoQuery]
         ELSE s1

\* handleLogin, were the landing page not selected
handleLogin_KeepsPage(s, userData) ==
  LET s1 == [s EXCEPT !.user = userData, !.isAuthenticated = TRUE,
                      !.lsUser = JSON_stringify(userData),
                      !.event = Event("login", userData, <<>>)]
  IN IF userData.id # 0 THEN loadApplications(s1, userData.id) ELSE s1

handleLogin(s, userData) ==
  LET s1 == [s EXCEPT !.user = userData, !.isAuthenticated = TRUE,
                      !.currentPage = "dashboard",
                      !.lsUser = JSON_stringify(userData),
                      !.event = Event("login", userData, <<>>)]
  IN IF userData.id # 0 THEN loadApplications(s1, userData.id) ELSE s1

\* handleLogout, were the token left in localStorage
handleLogout_KeepsToken(s) ==
  [s EXCEPT !.user = JsNull, !.isAuthenticated = FALSE, !.currentPage = "login",
            !.applications = <<>>, !.lsUser = NoItem,
            !.event = Event("logout", s.user, s.applications)]

\* handleLogout, were the cache not emptied
handleLogout_KeepsApplications(s) ==
  [s EXCEPT !.user = JsNull, !.isAuthenticated = FALSE, !.currentPage = "login",
            !.lsToken = NoToken, !.lsUser = NoItem,
            !.event = Event("logout", s.user, s.applications)]

\* the event records the identity and the cache the logout discards; App's error
\* cell, which only this handler sets (to ''), is always '' and is left out
handleLogout(s) ==
  [s EXCEPT !.user = JsNull, !.isAuthenticated = FALSE, !.currentPage = "login",
            !.applications = <<>>, !.lsToken = NoToken, !.lsUser = NoItem,
            !.event = Event("logout", s.user, s.applications)]

handlePageChange(s, page) == [Happened(s, "navigate") EXCEPT !.currentPage = page]

\* the number of the record added last among those the list holds
MaxSeq(list) ==
  LET seqs == {0} \cup {list[i].seq : i \in 1..Len(list)}
  IN CHOOSE m \in seqs : \A n \in seqs : n <= m

\* handleAddApplication, were the new record put last
handleAddApplication_Appends(s, appData) ==
  LET newApp == [appData EXCEPT !.id = IF appData.id # 0 THEN appData.id ELSE s.now,
                                !.created_at = s.now, !.updated_at = s.now,
                                !.seq = 1 + MaxSeq(s.applications)]
  IN [s EXCEPT !.applications = @ \o <<newApp>>]

\* appData's own fields override the generated id; the timestamps are always now
handleAddApplication(s, appData) ==
  LET newApp == [appData EXCEPT !.id = IF appData.id # 0 THEN appData.id ELSE s.now,
                                !.created_at = s.now, !.updated_at = s.now,
                                !.seq = 1 + MaxSeq(s.applications)]
  IN [s EXCEPT !.applications = <<newApp>> \o @]

\* handleUpdateApplication, were a record made for an id the cache does not hold
handleUpdateApplication_AddsWhenAbsent(s, id, appData) ==
  LET prev == s.applications
      merged == [i \in 1..Len(prev) |->
                   IF prev[i].id = id
                     THEN [prev[i] EXCEPT !.company = appData.company,
                                          !.role = appData.role,
                                          !.status = appData.status,
                                          !.updated_at = s.now]
                     ELSE prev[i]]
  IN [s EXCEPT !.applications =
        IF \E i \in 1..Len(prev) : prev[i].id = id
          THEN merged
          ELSE merged \o <<[AppRecord(id, s.now) EXCEPT !.company = appData.company,
                                                        !.role = appData.role,
                                                        !.status = appData.status]>>]

\* prev.map: the records with that id get the form's fields and a new
\* updated_at, every other record is kept
handleUpdateApplication(s, id, appData) ==
  LET prev == s.applications
  IN [s EXCEPT !.applications =
        [i \in 1..Len(prev) |->
           IF prev[i].id = id
             THEN [prev[i] EXCEPT !.company = appData.company, !.role = appData.role,
                                  !.status = appData.status, !.updated_at = s.now]
             ELSE prev[i]]]

handleDeleteApplication(s, id) ==
  [s EXCEPT !.applications = SelectSeq(@, LAMBDA app : app.id # id)]

\* Applications.loadApplications after its await: every record of the response
\* is handed to onAddApplication, in response order
RECURSIVE AddEach(_, _)
AddEach(s, list) ==
  IF list = <<>> THEN s ELSE AddEach(handleAddApplication(s, Head(list)), Tail(list))

(***************************************************************************)
(* Remote client.                                                          *)
(***************************************************************************)
\* handleResponse on a 401: both keys are removed and the browser is sent to
\* /login, which loads the page anew; calls still in flight are lost with the page
Unauthorized(s) == PageLoad(Url("/login", NoQuery), NoToken, NoItem, s.now, "unauthorized")

\* the call r has been answered
Answered(s, r) == [Happened(s, "response") EXCEPT !.requests = @ \ {r}]

\* the finally block of the Applications call r: setIsLoading(false), of the
\* view that issued the call
Finally(s, r) == [s EXCEPT !.viewIsLoading = IF r.live THEN FALSE ELSE @]

(***************************************************************************)
(* Remote service: application records.                                    *)
(***************************************************************************)
\* the id the service gives the record of the create call numbered n: an id no
\* record held before, and not a value of the client's clock
ServerId(n) == MaxNow + n

\* the record the service stores for the create call r, and returns as
\* newApp.application
Created(r) ==
  [AppRecord(ServerId(r.n), FirstNow) EXCEPT !.company = r.form.company,
                                             !.role = r.form.role,
                                             !.status = r.form.status]

\* the lists getAll may answer with: a create call that was issued may have been
\* stored by the time the service computes the answer
ListsOf(s) ==
  ServerLists \cup
    {<<Created(r)>> \o l : <<r, l>> \in
       {r \in s.requests : r.kind = "add"} \X {l \in ServerLists : Len(l) <= 1}}

(***************************************************************************)
(* Applications: the list with its filter, the form and the remote calls.  *)
(***************************************************************************)
\* String.prototype.toLowerCase
Lower(c) == CASE c = "A" -> "a" [] c = "B" -> "b" [] OTHER -> c
toLowerCase(str) == [i \in 1..Len(str) |-> Lower(str[i])]

\* String.prototype.includes
includes(str, searchString) ==
  \E k \in 0..(Len(str) - Len(searchString)) :
    SubSeq(str, k + 1, k + Len(searchString)) = searchString

\* filteredApplications, were the role not searched
filteredApplications_CompanyOnly(s) ==
  SelectSeq(s.applications,
            LAMBDA app :
              /\ s.filter = "all" \/ app.status = s.filter
              /\ includes(toLowerCase(app.company), toLowerCase(s.searchTerm)))

filteredApplications(s) ==
  SelectSeq(s.applications,
            LAMBDA app :
              LET matchesFilter == s.filter = "all" \/ app.status = s.filter
                  matchesSearch ==
                    \/ includes(toLowerCase(app.company), toLowerCase(s.searchTerm))
                    \/ includes(toLowerCase(app.role), toLowerCase(s.searchTerm))
              IN matchesFilter /\ matchesSearch)

\* what ApplicationForm submits (source is left out): a status other than the
\* one of the records the service held
AppForms == {[company |-> Acme, role |-> Engineer, status |-> "Interview"]}

\* form data as a record without id and timestamps
FormRecord(id, form) ==
  [AppRecord(id, 0) EXCEPT !.company = form.company, !.role = form.role,
                           !.status = form.status]

\* a create, update or delete call is issued
Operation(s, kind, id, form) ==
  [s EXCEPT !.requests = @ \cup {Request(s.nextReq, kind, id, form)},
            !.nextReq = @ + 1,
            !.viewIsLoading = TRUE]

\* Applications.handleAddApplication, were a placeholder put in the cache before
\* the call
ApplicationsHandleAddApplication_Optimistic(s, appData) ==
  IF s.user.id = 0 THEN s
  ELSE Operation(handleAddApplication(s, FormRecord(0, appData)), "add", s.user.id, appData)

\* Applications.handleAddApplication up to its await
ApplicationsHandleAddApplication(s, appData) ==
  IF s.user.id = 0 THEN s ELSE Operation(s, "add", s.user.id, appData)

\* Applications.handleUpdateApplication, were the cache changed before the call
ApplicationsHandleUpdateApplication_Optimistic(s, id, appData) ==
  Operation(handleUpdateApplication(s, id, appData), "update", id, appData)

\* Applications.handleUpdateApplication up to its await
ApplicationsHandleUpdateApplication(s, id, appData) == Operation(s, "update", id, appData)

\* Applications.handleDeleteApplication, were the record removed before the call
ApplicationsHandleDeleteApplication_Optimistic(s, id) ==
  Operation(handleDeleteApplication(s, id), "delete", id, NoForm)

\* Applications.handleDeleteApplication up to its await
ApplicationsHandleDeleteApplication(s, id) == Operation(s, "delete", id, NoForm)

\* Applications.handleDelete: confirmed is the answer to window.confirm
ApplicationsHandleDelete(s, id, confirmed) ==
  IF confirmed THEN ApplicationsHandleDeleteApplication(s, id) ELSE s

(***************************************************************************)
(* OAuthCallback.                                                          *)
(***************************************************************************)
\* the effect up to the profile call
OAuthCallbackEffect(s) ==
  IF s.query.token # NoToken /\ s.query.user_id # 0
    THEN [s EXCEPT !.lsToken = s.query.token,
                   !.requests = @ \cup {Request(s.nextReq, "profile", s.query.user_id, NoForm)},
                   !.nextReq = @ + 1,
                   !.cbPending = FALSE]
    ELSE [s EXCEPT !.cbError = "Missing authentication token", !.cbPending = FALSE]

\* setError of a component that may have been unmounted meanwhile
OAuthCallbackSetError(s) ==
  IF ViewOf(s) = "oauth-callback"
    THEN [s EXCEPT !.cbError = "Failed to load user profile"] ELSE s

\* the .then of the profile call, were the URL left as it is
OAuthCallbackThen_KeepsUrl(s, userData) ==
  LET s1 == [s EXCEPT !.lsUser = JSON_stringify(userData)]
  IN IF userData.t = "null"
       THEN OAuthCallbackSetError(s1)
       ELSE handleLogin(s1, JsObject(userData.id, userData.name, userData.email))

\* the .then of the profile call, were the id taken from the URL
OAuthCallbackThen_IdFromUrl(s, userData) ==
  LET s1 == [s EXCEPT !.lsUser = JSON_stringify(userData)]
  IN IF userData.t = "null"
       THEN OAuthCallbackSetError(s1)
       ELSE [handleLogin(s1, JsObject(s.query.user_id, userData.name, userData.email))
               EXCEPT !.pathname = "/", !.query = NoQuery]

\* the .then of the profile call; a null body makes userData.id throw into .catch
OAuthCallbackThen(s, userData) ==
  LET s1 == [s EXCEPT !.lsUser = JSON_stringify(userData)]
  IN IF userData.t = "null"
       THEN OAuthCallbackSetError(s1)
       ELSE [handleLogin(s1, JsObject(userData.id, userData.name, userData.email))
               EXCEPT !.pathname = "/", !.query = NoQuery]

(***************************************************************************)
(* EmailAccountsList: the connected e-mail accounts and their manual sync. *)
(* The view's isLoading, error and success cells only change what is shown *)
(* and are left out.                                                       *)
(***************************************************************************)
\* the e-mail accounts the remote service may hold, and the lists getAll may
\* answer with (of an account record only the id is kept)
AccountIds == {1, 2}
Account(id) == [id |-> id]
AccountLists == {<<>>, <<Account(1)>>, <<Account(1), Account(2)>>}

\* the account id an event carries
AccountId(id) == [JsNumber EXCEPT !.id = id]

\* loadAccounts up to its await
loadAccounts(s) ==
  [s EXCEPT !.requests = @ \cup {Request(s.nextReq, "accounts", 0, NoForm)},
            !.nextReq = @ + 1]

\* handleSync, were the syncing set not tested
handleSync_WithoutTest(s, accountId) ==
  [s EXCEPT !.syncingAccounts = @ \cup {accountId},
            !.requests = @ \cup {Request(s.nextReq, "sync", accountId, NoForm)},
            !.nextReq = @ + 1]

\* handleSync up to its await
handleSync(s, accountId) ==
  IF accountId \in s.syncingAccounts THEN s
  ELSE [s EXCEPT !.syncingAccounts = @ \cup {accountId},
                 !.requests = @ \cup {Request(s.nextReq, "sync", accountId, NoForm)},
                 !.nextReq = @ + 1]

\* handleSync after syncAccount resolved: the reload is set for a second later
handleSyncThen(s, accountId) == [s EXCEPT !.syncTimers = @ \cup {accountId}]

\* the timer's callback, were the account left in the syncing set
handleSyncTimeout_KeepsSyncing(s, accountId) ==
  [loadAccounts(s) EXCEPT !.syncTimers = @ \ {accountId}]

\* the timer's callback: the accounts are loaded anew and the account is taken
\* out of the syncing set
handleSyncTimeout(s, accountId) ==
  [loadAccounts(s) EXCEPT !.syncingAccounts = @ \ {accountId},
                          !.syncTimers = @ \ {accountId}]

\* handleSync's catch
handleSyncCatch(s, accountId) == [s EXCEPT !.syncingAccounts = @ \ {accountId}]

(***************************************************************************)
(* Register.                                                               *)
(***************************************************************************)
\* what authAPI.register may resolve with: the identity fields of the account
\* the remote service created, under an id of the service's choosing
RegisterResponses(form) ==
  {JsObject(account.id, form.name, form.email) : account \in Accounts}

\* handleSubmit after authAPI.register resolved with response
RegisterThen(s, form, response) ==
  handleLogin(s, JsObject(1, form.name, form.email))

(***************************************************************************)
(* Login.  The component is not part of the sources at hand; it is taken   *)
(* to pass the identity the remote service returns to onLogin.             *)
(***************************************************************************)
LoginThen(s, identity) == handleLogin(s, identity)

(***************************************************************************)
(* Steps.                                                                  *)
(***************************************************************************)
\* the values Date.now() may return when it last returned t: the same
\* millisecond or a later one (only the order of its values matters)
Clocks(t) == {u \in {t, t + 1} : u <= MaxNow}

\* a step to state s, within the bounds of the model
Step(s) ==
  /\ s.nextReq <= MaxReq + 1
  /\ Len(s.applications) <= MaxCache
  /\ Becomes(s)

\* no effect is waiting: the event loop takes the next user event or response
Idle == pc = "run" /\ ~cbPending /\ isAuthenticated = authDep

RestoreEffect ==
  /\ pc = "restore"
  /\ Step([Restore(Cur) EXCEPT !.pc = "urlEffect"])

\* the URL effect of the first commit sees the isAuthenticated of the first render
MountUrlEffect ==
  /\ pc = "urlEffect"
  /\ Step(Commit(Cur, [UrlEffect(Cur, FALSE) EXCEPT !.pc = "run"], TRUE))

CallbackEffect ==
  /\ pc = "run" /\ cbPending
  /\ Step(OAuthCallbackEffect(Cur))

AuthEffect ==
  /\ pc = "run" /\ ~cbPending /\ isAuthenticated # authDep
  /\ Step(Commit(Cur, UrlEffect(Cur, isAuthenticated), FALSE))

Logout ==
  /\ Idle /\ LayoutShown(Cur)
  /\ Step(Commit(Cur, handleLogout(Cur), TRUE))

PageChange ==
  /\ Idle /\ LayoutShown(Cur)
  /\ \E page \in {"dashboard", "applications", "profile"} :
       /\ page # currentPage
       /\ Step(Commit(Cur, handlePageChange(Cur, page), FALSE))

SwitchToRegister ==
  /\ Idle /\ View = "login"
  /\ Step(Commit(Cur, handlePageChange(Cur, "register"), FALSE))

SwitchToLogin ==
  /\ Idle /\ View = "register" /\ currentPage # "login"
  /\ Step(Commit(Cur, handlePageChange(Cur, "login"), FALSE))

GoToLogin ==
  /\ Idle /\ View = "oauth-callback" /\ cbError # ""
  /\ Step(PageLoad(Url("/login", NoQuery), lsToken, lsUser, now, "goToLogin"))

RegisterSubmit ==
  /\ Idle /\ View = "register"
  /\ \E form \in FormData :
       Step([Happened(Cur, "submit") EXCEPT
               !.requests = @ \cup {Request(nextReq, "register", 0, form)},
                        !.nextReq = @ + 1])

LoginSubmit ==
  /\ Idle /\ View = "login"
  /\ \E form \in FormData :
       Step([Happened(Cur, "submit") EXCEPT
               !.requests = @ \cup {Request(nextReq, "login", 0, form)},
                        !.nextReq = @ + 1])

\* responses
Pending(kind) == {r \in requests : r.kind = kind}

LoadOk ==
  /\ Idle
  /\ \E r \in Pending("load"), list \in ListsOf(Cur) :
       Step(Commit(Cur, [Answered(Cur, r) EXCEPT !.applications = list,
                                                !.isLoading = FALSE,
                                                !.loadLog = Append(@, r.n),
                                                !.event = Event("load", JsUndefined, list)],
                   TRUE))

LoadFail ==
  /\ Idle
  /\ \E r \in Pending("load") :
       Step(Commit(Cur, [Answered(Cur, r) EXCEPT !.isLoading = FALSE], FALSE))

PageLoadOk ==
  /\ Idle
  /\ \E r \in Pending("pageLoad"), list \in ListsOf(Cur), clock \in Clocks(now) :
       Step(Commit(Cur, Finally(AddEach([Answered(Cur, r) EXCEPT
                                           !.now = clock,
                                           !.event = Event("pageLoad", JsUndefined, list)],
                                        list), r),
                   list # <<>>))

RegisterOk ==
  /\ Idle
  /\ \E r \in Pending("register") : \E response \in RegisterResponses(r.form) :
       Step(Commit(Cur, RegisterThen(Answered(Cur, r), r.form, response), TRUE))

LoginOk ==
  /\ Idle
  /\ \E r \in Pending("login"), identity \in Accounts :
       Step(Commit(Cur, LoginThen(Answered(Cur, r), identity), TRUE))

ProfileOk ==
  /\ Idle
  /\ \E r \in Pending("profile"), userData \in Accounts \cup {JsNull} :
       Step(Commit(Cur, OAuthCallbackThen(Answered(Cur, r), userData), userData.t # "null"))

ProfileFail ==
  /\ Idle
  /\ \E r \in Pending("profile") :
       Step(OAuthCallbackSetError(Answered(Cur, r)))

\* a call whose failure only sets an error message in the calling view
OtherFail ==
  /\ Idle
  /\ \E r \in requests :
       /\ r.kind \in {"pageLoad", "register", "login"}
       /\ Step(IF r.kind = "pageLoad" THEN Finally(Answered(Cur, r), r) ELSE Answered(Cur, r))

Response401 ==
  /\ Idle
  /\ \E r \in requests : Step(Unauthorized(Cur))

\* the Applications view: the form, and the edit and delete buttons of the
\* visible records, which are rendered unless isLoading; the form stays open,
\* and can be submitted again, while its call is awaited
AddSubmit ==
  /\ Idle /\ View = "applications"
  /\ \E form \in AppForms :
       Step(ApplicationsHandleAddApplication(
              [Cur EXCEPT !.event = Event("addSubmit", JsUndefined, <<FormRecord(0, form)>>)],
              form))

UpdateSubmit ==
  /\ Idle /\ View = "applications"
  /\ \E form \in AppForms,
        id \in {r.uid : r \in {q \in Pending("update") : q.live}}
                \cup (IF viewIsLoading THEN {}
                      ELSE {filteredApplications(Cur)[i].id :
                              i \in 1..Len(filteredApplications(Cur))}) :
       Step(ApplicationsHandleUpdateApplication(
              [Cur EXCEPT !.event = Event("updateSubmit", JsUndefined,
                                          <<FormRecord(id, form)>>)],
              id, form))

DeleteClick ==
  /\ Idle /\ View = "applications" /\ ~viewIsLoading
  /\ \E i \in 1..Len(filteredApplications(Cur)), confirmed \in BOOLEAN :
       LET app == filteredApplications(Cur)[i]
       IN Step(ApplicationsHandleDelete(
                 [Cur EXCEPT !.event = Event(IF confirmed THEN "deleteConfirmed"
                                                          ELSE "deleteCancelled",
                                             JsUndefined, <<AppRecord(app.id, 0)>>)],
                 app.id, confirmed))

\* the status buttons and the search box
SetFilter ==
  /\ Idle /\ View = "applications"
  /\ \E value \in {"all"} \cup Statuses :
       Step([Happened(Cur, "setFilter") EXCEPT !.filter = value])

\* onChange of the search box: a key stroke adds a character to the term or
\* removes its last one
SetSearchTerm ==
  /\ Idle /\ View = "applications"
  /\ \E value \in {Append(searchTerm, c) : c \in Chars}
                    \cup {SubSeq(searchTerm, 1, Len(searchTerm) - 1)} :
       /\ value # searchTerm /\ Len(value) <= MaxTerm
       /\ Step([Happened(Cur, "setSearchTerm") EXCEPT !.searchTerm = value])

\* answers to the calls of the Applications view; the clock is read when the
\* answer is handled
AddOk ==
  /\ Idle
  /\ \E r \in Pending("add"), clock \in Clocks(now) :
       Step(Commit(Cur, handleAddApplication(
                          [Finally(Answered(Cur, r), r) EXCEPT
                             !.now = clock,
                             !.event = Event("addOk", JsUndefined, <<Created(r)>>)],
                          Created(r)),
                   TRUE))

UpdateOk ==
  /\ Idle
  /\ \E r \in Pending("update"), clock \in Clocks(now) :
       Step(Commit(Cur, handleUpdateApplication(
                          [Finally(Answered(Cur, r), r) EXCEPT
                             !.now = clock,
                             !.event = Event("updateOk", JsUndefined,
                                             <<FormRecord(r.uid, r.form)>>)],
                          r.uid, r.form),
                   TRUE))

DeleteOk ==
  /\ Idle
  /\ \E r \in Pending("delete") :
       Step(Commit(Cur, handleDeleteApplication(
                          [Finally(Answered(Cur, r), r) EXCEPT
                             !.event = Event("deleteOk", JsUndefined,
                                             <<AppRecord(r.uid, 0)>> \o
                                               SelectSeq(applications,
                                                         LAMBDA app : app.id = r.uid))],
                          r.uid),
                   TRUE))

\* (the deleteOk event carries the id and, after it, the records removed)
\* a failed call sets the error message of the Applications view and nothing else
AddFail ==
  /\ Idle
  /\ \E r \in Pending("add") :
       Step([Finally(Answered(Cur, r), r) EXCEPT
               !.event = Event("addFail", JsUndefined, <<Created(r)>>)])

UpdateFail ==
  /\ Idle
  /\ \E r \in Pending("update") :
       Step([Finally(Answered(Cur, r), r) EXCEPT
               !.event = Event("updateFail", JsUndefined, <<FormRecord(r.uid, r.form)>>)])

DeleteFail ==
  /\ Idle
  /\ \E r \in Pending("delete") :
       Step([Finally(Answered(Cur, r), r) EXCEPT
               !.event = Event("deleteFail", JsUndefined, <<AppRecord(r.uid, 0)>>)])

\* EmailAccountsList.  A sync request is a call of handleSync for an account
\* that is shown (the button's disabled attribute repeats the handler's test and
\* is no part of the handler).
AccountsOk ==
  /\ Idle
  /\ \E r \in Pending("accounts"), list \in AccountLists :
       Becomes([Answered(Cur, r) EXCEPT !.accounts = list,
                                        !.event = Event("accounts", JsUndefined, <<>>)])

AccountsFail ==
  /\ Idle
  /\ \E r \in Pending("accounts") : Becomes(Answered(Cur, r))

SyncRequest ==
  /\ Idle /\ nextReq <= MaxSync
  /\ \E i \in 1..Len(accounts) :
       Becomes(handleSync([Cur EXCEPT !.event = Event("sync", AccountId(accounts[i].id), <<>>)],
                          accounts[i].id))

SyncOkFor(accountId) ==
  /\ Idle
  /\ \E r \in Pending("sync") :
       /\ r.uid = accountId
       /\ Becomes(handleSyncThen([Answered(Cur, r) EXCEPT
                                    !.event = Event("syncOk", AccountId(accountId), <<>>)],
                                 accountId))

SyncFailFor(accountId) ==
  /\ Idle
  /\ \E r \in Pending("sync") :
       /\ r.uid = accountId
       /\ Becomes(handleSyncCatch([Answered(Cur, r) EXCEPT
                                     !.event = Event("syncFail", AccountId(accountId), <<>>)],
                                  accountId))

SyncTimeoutFor(accountId) ==
  /\ Idle /\ accountId \in syncTimers
  /\ Becomes(handleSyncTimeout([Cur EXCEPT
                                  !.event = Event("syncTimeout", AccountId(accountId), <<>>)],
                               accountId))

SyncOk == \E accountId \in AccountIds : SyncOkFor(accountId)
SyncFail == \E accountId \in AccountIds : SyncFailFor(accountId)
SyncTimeout == \E accountId \in AccountIds : SyncTimeoutFor(accountId)

Init ==
  \E url \in InitUrls, token \in {NoToken, "S"}, savedUser \in StoredUsers :
    Becomes_Init(PageLoad(url, token, savedUser, FirstNow, "open"))

Next ==
  \/ RestoreEffect \/ MountUrlEffect \/ CallbackEffect \/ AuthEffect
  \/ Logout \/ PageChange \/ SwitchToRegister \/ SwitchToLogin \/ GoToLogin
  \/ RegisterSubmit \/ LoginSubmit
  \/ LoadOk \/ LoadFail \/ PageLoadOk \/ RegisterOk \/ LoginOk
  \/ ProfileOk \/ ProfileFail \/ OtherFail \/ Response401

Spec == Init /\ [][Next]_vars

(***************************************************************************)
(* The application collection: a session restored for a stored identity,   *)
(* the pages of the layout, and the calls of the Applications view.        *)
(***************************************************************************)
CrudInit ==
  Becomes_Init(PageLoad(Url("/", NoQuery), "S", JsonText(JsObject(2, "bob", "bob@x")),
                        FirstNow, "open"))

CrudNext ==
  \/ RestoreEffect \/ MountUrlEffect \/ AuthEffect
  \/ Logout \/ PageChange
  \/ LoadOk \/ LoadFail \/ PageLoadOk \/ OtherFail \/ Response401
  \/ AddSubmit \/ UpdateSubmit \/ DeleteClick
  \/ AddOk \/ UpdateOk \/ DeleteOk \/ AddFail \/ UpdateFail \/ DeleteFail

CrudSpec == CrudInit /\ [][CrudNext]_vars

(***************************************************************************)
(* The visible list of the Applications view: a restored session whose     *)
(* load was answered with any list of records, the view's own load with    *)
(* the empty list; the user sets the status filter and the search term.    *)
(***************************************************************************)
\* company, role and status of the records the service may hold
RecordData ==
  { [company |-> Acme, role |-> Engineer, status |-> "Applied"],
    [company |-> <<"B", "a", "b">>, role |-> Engineer, status |-> "Interview"],
    [company |-> Acme, role |-> <<"a", "A">>, status |-> "Interview"] }

FilterInit ==
  \E n \in 0..MaxCache : \E data \in [1..n -> RecordData] :
    Becomes_Init(
      [PageLoad(Url("/", NoQuery), "S", JsonText(JsObject(2, "bob", "bob@x")),
                FirstNow, "pageLoad")
         EXCEPT !.pc = "run", !.isAuthenticated = TRUE, !.authDep = TRUE,
                !.user = JsObject(2, "bob", "bob@x"),
                !.currentPage = "applications",
                !.applications = [i \in 1..n |-> FormRecord(i, data[i])],
                !.nextReq = 3, !.loadLog = <<1>>])

FilterNext == SetFilter \/ SetSearchTerm

FilterSpec == FilterInit /\ [][FilterNext]_vars

(***************************************************************************)
(* The e-mail accounts view: a restored session on the profile page, the   *)
(* view mounted and its first load in flight.  Every sync call is answered *)
(* and every timer fires.                                                  *)
(***************************************************************************)
SyncInit ==
  Becomes_Init(
    [PageLoad(Url("/", NoQuery), "S", JsonText(JsObject(2, "bob", "bob@x")),
              FirstNow, "navigate")
       EXCEPT !.pc = "run", !.isAuthenticated = TRUE, !.authDep = TRUE,
              !.user = JsObject(2, "bob", "bob@x"),
              !.currentPage = "profile",
              !.requests = {Request(2, "accounts", 0, NoForm)},
              !.nextReq = 3, !.loadLog = <<1>>])

SyncNext ==
  \/ AccountsOk \/ AccountsFail \/ SyncRequest
  \/ SyncOk \/ SyncFail \/ SyncTimeout \/ Response401

SyncSpec ==
  /\ SyncInit /\ [][SyncNext]_vars
  /\ \A accountId \in AccountIds :
       /\ WF_vars(SyncOkFor(accountId) \/ SyncFailFor(accountId))
       /\ WF_vars(SyncTimeoutFor(accountId))

(***************************************************************************)
(* Properties.                                                             *)
(***************************************************************************)
\* the identities a session can be opened for
Identities == Accounts \cup {JsObject(1, f.name, f.email) : f \in FormData}

\* C1: in every state in which the session is authenticated for an identity, a
\* token is persisted under the token key.
C1_TokenWhenAuthenticated ==
  (pc = "run" /\ isAuthenticated /\ user \in Identities) => lsToken # NoToken

\* C2: restore with a token and the JSON text of an identity persisted makes the
\* session authenticated with exactly that identity; restore without a token
\* leaves the session unauthenticated whatever the user key holds.
C2_RestoreSession ==
  [][RestoreEffect =>
       /\ \A a \in Identities :
            (lsToken # NoToken /\ lsUser = JSON_stringify(a))
              => (isAuthenticated' /\ user' = a)
       /\ lsToken = NoToken => (~isAuthenticated' /\ user' = JsNull)]_vars

\* restore has just authenticated the session from the two persisted items
C2_Witness ==
  /\ pc = "urlEffect" /\ isAuthenticated /\ user \in Identities
  /\ lsToken # NoToken /\ lsUser = JSON_stringify(user)

\* C3: whenever restore does not find both a token and the JSON text of an
\* identity, it ends with both keys removed and the session unauthenticated.
C3_RestoreClearsInvalid ==
  [][RestoreEffect =>
       (~(lsToken # NoToken /\ \E a \in Identities : lsUser = JSON_stringify(a))
          => (lsToken' = NoToken /\ lsUser' = NoItem /\ ~isAuthenticated'))]_vars

\* C4: after a 401 answer both keys are removed and the application, loaded
\* anew, is unauthenticated and shows the login view.
C4_UnauthorizedShowsLogin ==
  (event.name = "unauthorized" /\ pc = "run")
    => (lsToken = NoToken /\ lsUser = NoItem /\ ~isAuthenticated /\ View = "login")

IsCallbackUrl == (query.token # NoToken /\ query.user_id # 0) \/ IsEmailLinkUrl(Cur)

\* C7 as claimed: login(identity), for any URL, ends once the effects have run
\* with the session authenticated as that identity, the identity persisted and
\* the page 'dashboard' selected.
C7_LoginSelectsDashboard ==
  (event.name = "login" /\ Idle)
    => /\ isAuthenticated /\ user = event.identity
       /\ lsUser = JSON_stringify(event.identity)
       /\ currentPage = "dashboard"

\* C7 as amended: the same, the page being 'dashboard' when the URL the effects
\* find carries no token and user_id pair, no success=email_connected, no error
\* and is not the path /profile.
C7_LoginSelectsDashboardOffCallbackUrl ==
  (event.name = "login" /\ Idle)
    => /\ isAuthenticated /\ user = event.identity
       /\ lsUser = JSON_stringify(event.identity)
       /\ (~IsCallbackUrl => currentPage = "dashboard")

\* the OAuth exchange has logged the user in and the effects have run
C7_Witness ==
  /\ event.name = "login" /\ Idle /\ lsToken = "T" /\ ~IsCallbackUrl
  /\ isAuthenticated /\ user = event.identity /\ currentPage = "dashboard"

\* C8: no two cached records share an id.
C8_NoDuplicateIds ==
  \A i, j \in 1..Len(applications) : i # j => applications[i].id # applications[j].id

\* C9: when a load resolves, whichever view issued it, the cache is exactly the
\* list of the response, in the order of the response.
C9_LoadReplacesCache ==
  event.name \in {"load", "pageLoad"} => applications = event.list

\* C10: when a load resolves the other loads stay in flight, and when a load
\* resolves after a load issued later than it, the cache is its response.
C10_LastResolvedLoadWins ==
  /\ [][LoadOk => Cardinality(Pending("load")') = Cardinality(Pending("load")) - 1]_vars
  /\ []((/\ event.name = "load" /\ Len(loadLog) >= 2
         /\ loadLog[Len(loadLog)] < loadLog[Len(loadLog) - 1])
          => applications = event.list)

(***************************************************************************)
(* The application collection: add, update, remove.                        *)
(***************************************************************************)
\* the cached record i holds the data of the form the event carries
HoldsFormData(i) ==
  /\ applications[i].company = event.list[1].company
  /\ applications[i].role = event.list[1].role
  /\ applications[i].status = event.list[1].status

C15_ServerRecordOnceOrNone ==
  /\ [](event.name = "addOk" =>
          /\ Cardinality({i \in 1..Len(applications) :
                            applications[i].id = event.list[1].id}) = 1
          /\ Head(applications).id = event.list[1].id
          /\ event.list[1].id \notin FirstNow..MaxNow)
  /\ [][AddFail => applications' = applications]_vars

(***************************************************************************)
(* The visible list.                                                       *)
(***************************************************************************)
\* C16: for every cache, status filter and search term, the visible list is the
\* cached records, in cache order, whose status is the selected one (any status
\* under 'all') and whose company or role has the search term as a substring,
\* letters compared without regard to case; setting the filter or the search
\* term, which computes the list anew, leaves the cache as it is.
C16_VisibleList ==
  /\ [](LET SameLetter(c, d) == c = d \/ {c, d} = {"a", "A"} \/ {c, d} = {"b", "B"}
            Contains(text, term) ==
              \E k \in 0..Len(text) :
                /\ k + Len(term) <= Len(text)
                /\ \A m \in 1..Len(term) : SameLetter(text[k + m], term[m])
            Matches(app) ==
              /\ filter = "all" \/ app.status = filter
              /\ Contains(app.company, searchTerm) \/ Contains(app.role, searchTerm)
        IN filteredApplications(Cur) = SelectSeq(applications, Matches))
  /\ [][SetFilter \/ SetSearchTerm => applications' = applications]_vars

\* a status and a term in capitals are set, and the list shows some of the
\* cached records: one whose role only has the term in small letters
C16_Witness ==
  /\ event.name \in {"setFilter", "setSearchTerm"}
  /\ filter = "Interview" /\ searchTerm = <<"A", "A">>
  /\ Len(applications) = MaxCache
  /\ Len(filteredApplications(Cur)) = 1
  /\ filteredApplications(Cur)[1].role = <<"a", "A">>

(***************************************************************************)
(* OAuth resumption.                                                       *)
(***************************************************************************)
\* the URL carries both token and user_id
IsOAuthUrl == query.token # NoToken /\ query.user_id # 0

\* C17: on a load whose URL carries both token and user_id the handler selects
\* the oauth-callback view, at the first evaluation and at the evaluation that
\* follows the restore of a persisted session alike; when the exchange succeeds
\* the query string is cleared and the page 'dashboard' is selected, and it is
\* still selected when the effects have run.
C17_OAuthCallbackOnLoad ==
  /\ [][((MountUrlEffect \/ AuthEffect) /\ IsOAuthUrl)
          => (currentPage' = "oauth-callback" /\ View' = "oauth-callback")]_vars
  /\ [][(ProfileOk /\ event'.name = "login")
          => (query' = NoQuery /\ currentPage' = "dashboard")]_vars
  /\ []((event.name = "login" /\ lsToken = "T" /\ query = NoQuery /\ pathname = "/"
          /\ Idle)
           => (currentPage = "dashboard" /\ View = "dashboard"))

\* the exchange has succeeded on a load that had restored a persisted session,
\* whose own load is still in flight
C17_Witness ==
  /\ event.name = "login" /\ Idle /\ lsToken = "T" /\ query = NoQuery
  /\ currentPage = "dashboard"
  /\ \E r \in requests : r.kind = "load" /\ r.n = 1 /\ r.uid = 2

\* C18 as claimed: when the profile call issued for the URL ?token=T&user_id=U
\* succeeds, the token T is persisted and login is called with an identity whose
\* id is U, whatever profile the service answers with.
C18_LoginWithUrlUserId ==
  [][(ProfileOk /\ event'.name = "login")
       => (lsToken' = "T" /\ \E r \in requests \ requests' : event'.identity.id = r.uid)]_vars

\* C18 as amended: for the URL ?token=T&user_id=U the view persists the token T
\* before it issues the profile call for U; when the call succeeds login is
\* called with the identity {id, name, email} of the profile the service
\* answered with (so with id U when that is the profile of U), and that
\* identity is the one the session holds and persists.
C18_LoginWithProfileOfResponse ==
  /\ [][(CallbackEffect /\ IsOAuthUrl)
          => /\ lsToken' = query.token
             /\ \E r \in requests' \ requests :
                  r.kind = "profile" /\ r.uid = query.user_id]_vars
  /\ [][(ProfileOk /\ event'.name = "login")
          => /\ event'.identity \in Accounts
             /\ user' = event'.identity
             /\ lsUser' = JSON_stringify(event'.identity)]_vars

\* the exchange has succeeded with the profile of another user than the URL named
C18_Witness ==
  /\ event.name = "login" /\ lsToken = "T" /\ query = NoQuery
  /\ event.identity \in Accounts /\ event.identity.id # 1
  /\ user = event.identity /\ lsUser = JSON_stringify(user)

\* C19: once the handler has processed a callback URL and stripped its query
\* string, no later evaluation of the handler on the URL that results (the
\* restore effect and the callback effect of a load, the callback effect after
\* an authentication change) selects the oauth-callback view or the profile page.
C19_ResumptionIdempotent ==
  [][((RestoreEffect \/ MountUrlEffect \/ AuthEffect) /\ query = NoQuery)
       => (currentPage' \in {"oauth-callback", "profile"} => currentPage' = currentPage)]_vars

\* C20: with success=email_connected or error=<msg> in the URL (and no token and
\* user_id pair), the handler evaluated for an authenticated session selects the
\* profile page and replaces the URL by one without success and error, the page
\* staying loaded with its calls in flight, and no such parameter is left once
\* the effects of an authenticated session have run; evaluated for an
\* unauthenticated session, the handler and the restore leave the selected page
\* as it is.
C20_EmailLinkWhenAuthenticated ==
  /\ [][(AuthEffect /\ isAuthenticated /\ (query.success \/ query.error) /\ ~IsOAuthUrl)
          => /\ currentPage' = "profile" /\ View' = "profile"
             /\ ~query'.success /\ ~query'.error
             /\ pc' = "run" /\ requests' = requests /\ applications' = applications
             /\ user' = user /\ isAuthenticated']_vars
  /\ []((Idle /\ isAuthenticated /\ ~IsOAuthUrl) => (~query.success /\ ~query.error))
  /\ [][(RestoreEffect /\ ~isAuthenticated') => currentPage' = currentPage]_vars
  /\ [][(MountUrlEffect /\ ~IsOAuthUrl) => currentPage' = currentPage]_vars
  /\ [][(AuthEffect /\ ~isAuthenticated /\ ~IsOAuthUrl)
          => (currentPage' = currentPage /\ query' = query)]_vars

\* a session opened on a URL with success=email_connected or error=<msg> by a
\* registration: the handler has selected the profile page and stripped the URL
C20_Witness ==
  /\ event.name = "login" /\ Idle /\ isAuthenticated /\ lsToken = NoToken
  /\ currentPage = "profile" /\ pathname = "/profile" /\ query = NoQuery
  /\ requests # {}

(***************************************************************************)
(* Failed exchange, render guard.                                          *)
(***************************************************************************)
\* C21: when the profile fetch fails the callback view, if it is still shown,
\* shows its error, and the exchange is not retried without user action: the
\* callback view never has two profile fetches in flight, and once it shows the
\* error its effect issues no further fetch, whatever makes the parent render
\* again.
C21_NoAutomaticRetry ==
  /\ [][(ProfileFail /\ View = "oauth-callback")
          => (View' = "oauth-callback" /\ cbError' # "")]_vars
  /\ [](Cardinality(Pending("profile")) <= 1)
  /\ [][(CallbackEffect /\ cbError # "") => requests' = requests]_vars

\* C22: in every state, an unauthenticated session is shown the login or the
\* register view whatever page is selected, except that the callback view is
\* shown when the selected page is 'oauth-callback'; the dashboard, the
\* applications and the profile view are shown to authenticated sessions only.
C22_UnauthenticatedViews ==
  /\ ~isAuthenticated =>
       IF currentPage = "oauth-callback" THEN View = "oauth-callback"
       ELSE View \in {"login", "register"}
  /\ View \in {"dashboard", "applications", "profile"} => isAuthenticated

\* a 401 has ended an authenticated session: the page selected is the dashboard,
\* the view shown is not
C22_Witness ==
  /\ pc = "run" /\ event.name = "unauthorized" /\ ~isAuthenticated
  /\ currentPage = "dashboard" /\ View = "register"

C29_SyncingEventuallyCleared ==
  /\ [](\A accountId \in syncingAccounts :
          \/ \E r \in Pending("sync") : r.uid = accountId
          \/ accountId \in syncTimers)
  /\ [][\A accountId \in AccountIds :
          /\ SyncFailFor(accountId) => accountId \notin syncingAccounts'
          /\ SyncOkFor(accountId) => accountId \in syncTimers'
          /\ SyncTimeoutFor(accountId) =>
               (accountId \notin syncingAccounts' /\ accountId \notin syncTimers')]_vars
  /\ \A accountId \in AccountIds :
       (accountId \in syncingAccounts) ~> (accountId \notin syncingAccounts)

\* the timer of an account whose sync succeeded has fired, and the account is
\* out of the syncing set while another account is still in it
C29_Witness ==
  /\ event.name = "syncTimeout"
  /\ event.identity.id \notin syncingAccounts
  /\ syncingAccounts # {}
  /\ \E r \in Pending("accounts") : r.n + 1 = nextReq

(***************************************************************************)
(* Scenarios and late responses.                                           *)
(***************************************************************************)
\* C24: a login that succeeds for an unauthenticated session selects the
\* dashboard, which is shown with an empty application list (the list to which
\* the first add then puts its one record).
C24_LoginShowsEmptyDashboard ==
  [][(LoginOk /\ ~isAuthenticated)
       => /\ isAuthenticated' /\ currentPage' = "dashboard" /\ View' = "dashboard"
          /\ applications' = <<>>]_vars

\* C25: the cache only holds records fetched for the identity of the session:
\* it is empty whenever the session is unauthenticated, and the answer to a load
\* issued for another identity than the session's (or resolved after logout)
\* leaves the cache as it is.
C25_CacheOfCurrentIdentity ==
  /\ []((pc = "run" /\ ~isAuthenticated) => applications = <<>>)
  /\ [][LoadOk => \A r \in requests \ requests' :
                    \/ isAuthenticated /\ r.uid = user.id
                    \/ applications' = applications]_vars

(***************************************************************************)
(* Registration, failed exchange and the persisted token.                  *)
(***************************************************************************)
\* C26: when a registration succeeds, the identity handed to login carries
\* the id the remote service returned for the new account, whatever id the
\* service chose, and the load that login starts asks for that account's
\* applications.
C26_RegisterPassesServiceId ==
  [][RegisterOk
       => \A r \in requests \ requests' :
            \A response \in RegisterResponses(r.form) :
              /\ user'.id = response.id
              /\ \A q \in requests' \ requests :
                   q.kind = "load" => q.uid = response.id]_vars

\* C27: when the profile fetch of a token exchange fails with an error other
\* than 401, the token of the URL, which is the token of the failed
\* exchange, is not the persisted token afterwards.
C27_FailedExchangeLeavesToken ==
  [][(ProfileFail /\ query.token # NoToken) => lsToken' # query.token]_vars

(***************************************************************************)
(* Rendering and the cache.                                                *)
(***************************************************************************)
\* C28: rendering the dashboard leaves the cache as it is, order included: a
\* step whose handler does not write the cache (a page change, a failed
\* load) and after which the dashboard is rendered leaves the cache unchanged.
C28_DashboardRenderKeepsCache ==
  [][((PageChange \/ LoadFail) /\ View' = "dashboard")
       => applications' = applications]_vars

(***************************************************************************)
(* Update and remove: what they leave alone.                               *)
(***************************************************************************)
\* C30: applying update(id, patch) to the cache keeps the number and the order
\* of the records, keeps the id and created_at of every record, changes no
\* record of another id, and leaves the cache as it is when no record has the
\* id; applying remove(id) leaves no record of that id, keeps the records of
\* other ids in their order, and leaves the cache as it is when no record has
\* the id.
C30_UpdateRemoveFrame ==
  /\ [][UpdateOk =>
         LET id == event'.list[1].id
         IN /\ Len(applications') = Len(applications)
            /\ \A i \in 1..Len(applications) :
                 /\ applications'[i].id = applications[i].id
                 /\ applications'[i].created_at = applications[i].created_at
                 /\ applications[i].id # id => applications'[i] = applications[i]
            /\ (\A i \in 1..Len(applications) : applications[i].id # id)
                 => applications' = applications]_vars
  /\ [][DeleteOk =>
         LET id == event'.list[1].id
             kept == {i \in 1..Len(applications) : applications[i].id # id}
         IN /\ \A i \in 1..Len(applications') : applications'[i].id # id
            /\ Len(applications') = Cardinality(kept)
            /\ \A i \in kept :
                 applications'[Cardinality({j \in kept : j <= i})] = applications[i]
            /\ kept = 1..Len(applications) => applications' = applications]_vars

\* the remote update of one of two cached records has succeeded: the record
\* holds the patch, the other record is as it was loaded
C30_Witness ==
  /\ event.name = "updateOk" /\ Len(applications) >= 2
  /\ \E i, j \in 1..Len(applications) :
       /\ applications[i].id = event.list[1].id /\ applications[i].updated_at = now
       /\ applications[i].status = "Interview"
       /\ applications[j].id # event.list[1].id /\ applications[j].status = "Applied"

====
